---- MODULE Spec2Model ----
(***************************************************************************)
(* Consistent-hash ring with bounded-load host selection                   *)
(* (core/algorithm.go) and the proxy that reserves and releases load       *)
(* around it (proxy/proxy.go).                                             *)
(***************************************************************************)
EXTENDS Integers, Sequences, FiniteSets, TLC

VARIABLES hosts, virt2host, ring, totalLoad, last, reqs, calls, base, wr

core == <<hosts, virt2host, ring, totalLoad>>
vars == <<hosts, virt2host, ring, totalLoad, last, reqs, calls, base, wr>>

(***************************************************************************)
(* Bounds of the model                                                     *)
(***************************************************************************)
\* virtual nodes per host the ring is constructed with (core.New(replicaNum, ..))
replicaNum == 2
\* no further load is reserved once a counter has reached this value
MaxTotalLoad == 3
\* direct Done calls stop once a counter is this far below zero
MaxOverRelease == 1
\* proxy requests that can be in flight at once
NumReq == 2
\* callers of the Inc/Done storm
NumCallers == 3

HostNames == {"A", "B", "C"}
HostIdx == [h \in HostNames |-> CASE h = "A" -> 0 [] h = "B" -> 1 [] OTHER -> 2]
NumHosts == Cardinality(HostNames)

Reqs == 1..NumReq
Callers == 1..NumCallers

\* lookup keys; the number is the key's digest: below every virtual node,
\* on a virtual node, between two of them, above every virtual node
MaxKeyHash == 2 * replicaNum * NumHosts
Keys == {<<"key", n>> : n \in {m \in 0..MaxKeyHash : m % 3 = 0}}

NoHost == ""
NoKey == <<>>
Nil == "nil"
Panic == "panic"
Hang == "hang"
ErrHostAlreadyExists == "host already exists"
ErrHostNotFound == "host not found"

(***************************************************************************)
(* Pure helpers                                                            *)
(***************************************************************************)
\* fmt.Sprintf(hostReplicaFormat, hostName, i)
hostReplicaFormat(hostName, i) == <<hostName, i>>

\* the 64-bit digest: distinct virtual-node strings get distinct (odd)
\* digests, interleaved over the hosts; a key's digest is its number
hashFunc(key) ==
    IF key[1] \in HostNames
    THEN 2 * (key[2] * NumHosts + ((HostIdx[key[1]] + key[2]) % NumHosts)) + 1
    ELSE key[2]

\* Go's integer division truncates toward zero
TruncDiv(a, b) == IF a >= 0 THEN a \div b ELSE -((-a) \div b)

\* math.Ceil(avg * (1 + loadBoundFactor)) with loadBoundFactor = 0.25
CeilLoadBound(avg) == -((-(5 * avg)) \div 4)

RECURSIVE SumLoads(_, _)
SumLoads(hs, S) ==
    IF S = {} THEN 0
    ELSE LET h == CHOOSE x \in S : TRUE IN hs[h] + SumLoads(hs, S \ {h})

\* insertion of one value into an ascending sequence
RECURSIVE InsertSorted(_, _)
InsertSorted(s, v) ==
    IF s = <<>> THEN <<v>>
    ELSE IF v < Head(s) THEN <<v>> \o s
    ELSE <<Head(s)>> \o InsertSorted(Tail(s), v)

\* the ring left in insertion order
unsortedSlice(s) == s

\* sort.Slice(c.ring, less) with less(i, j) = c.ring[i] < c.ring[j]
RECURSIVE sortSlice(_)
sortSlice(s) ==
    IF s = <<>> THEN <<>> ELSE InsertSorted(sortSlice(Tail(s)), Head(s))

\* sort.Search(n, f) with f(h) = c.ring[h] >= key: the bisection over the
\* 0-based interval [i, j)
RECURSIVE sortSearch(_, _, _, _)
sortSearch(rg, key, i, j) ==
    IF i >= j THEN i
    ELSE LET h == (i + j) \div 2
         IN IF ~(rg[h + 1] >= key)
            THEN sortSearch(rg, key, h + 1, j)
            ELSE sortSearch(rg, key, i, h)

\* a search that does not treat the sequence as a ring
searchKeyNoWrap(rg, key) == sortSearch(rg, key, 0, Len(rg)) + 1

\* searchKey: sort.Search, then wrap to index 0; the result is the 1-based
\* position (Len(rg) + 1 can only come back for an empty ring)
searchKey(rg, key) ==
    LET idx == sortSearch(rg, key, 0, Len(rg))
    IN IF idx >= Len(rg) THEN 1 ELSE idx + 1

\* the binary search of delHashIndex over 1-based positions; 0 = not found
RECURSIVE binSearch(_, _, _, _)
binSearch(rg, l, r, val) ==
    IF l > r THEN 0
    ELSE LET m == (l + r) \div 2
         IN IF rg[m] = val THEN m
            ELSE IF rg[m] < val THEN binSearch(rg, m + 1, r, val)
            ELSE binSearch(rg, l, m - 1, val)

\* a removal that splices out the entry after the one it found
delHashIndexNext(rg, val) ==
    LET idx == binSearch(rg, 1, Len(rg), val)
        nxt == (idx % Len(rg)) + 1
    IN IF idx # 0
       THEN SubSeq(rg, 1, nxt - 1) \o SubSeq(rg, nxt + 1, Len(rg))
       ELSE rg

delHashIndex(rg, val) ==
    LET idx == binSearch(rg, 1, Len(rg), val)
    IN IF idx # 0
       THEN SubSeq(rg, 1, idx - 1) \o SubSeq(rg, idx + 1, Len(rg))
       ELSE rg

\* the insertion loop of RegisterHost, replicas i .. replicaNum-1
RECURSIVE registerLoop(_, _, _, _)
registerLoop(hostName, i, v2h, rg) ==
    IF i >= replicaNum THEN [virt2host |-> v2h, ring |-> rg]
    ELSE LET hashedIdx == hashFunc(hostReplicaFormat(hostName, i))
         IN registerLoop(hostName, i + 1,
                [x \in DOMAIN v2h \cup {hashedIdx} |->
                    IF x = hashedIdx THEN hostName ELSE v2h[x]],
                Append(rg, hashedIdx))

\* a removal loop that stops one replica early
RECURSIVE unregisterLoopShort(_, _, _)
unregisterLoopShort(hostName, i, rg) ==
    IF i >= replicaNum - 1 THEN rg
    ELSE unregisterLoopShort(hostName, i + 1,
            delHashIndex(rg, hashFunc(hostReplicaFormat(hostName, i))))

\* the removal loop of UnregisterHost, replicas i .. replicaNum-1
RECURSIVE unregisterLoop(_, _, _)
unregisterLoop(hostName, i, rg) ==
    IF i >= replicaNum THEN rg
    ELSE unregisterLoop(hostName, i + 1,
            delHashIndex(rg, hashFunc(hostReplicaFormat(hostName, i))))

\* what the most recent call was and what it returned
\* (steps: virtual nodes a walk examined, the bound MaxLoad returned, or the
\* number of entries Hosts and GetLoads returned)
Result(op, host, key, ret, steps, req) ==
    [op |-> op, host |-> host, key |-> key, ret |-> ret, steps |-> steps,
     req |-> req]

\* checkLoadCapacity(host) against the counters hs/total: the totalLoad it
\* leaves behind and either a verdict, an error or a runtime panic
checkLoadCapacity(hs, total, host) ==
    LET t == IF total < 0 THEN 0 ELSE total
        n == Cardinality(DOMAIN hs)
    IN IF n = 0
       THEN [total |-> t, ret |-> Panic, ok |-> FALSE]
       ELSE LET q == TruncDiv(t + 1, n)
                avgLoadPerNode == CeilLoadBound(IF q = 0 THEN 1 ELSE q)
            IN IF host \notin DOMAIN hs
               THEN [total |-> t, ret |-> ErrHostNotFound, ok |-> FALSE]
               ELSE [total |-> t, ret |-> Nil,
                     ok |-> hs[host] + 1 <= avgLoadPerNode]

\* the for-loop of GetHostCapacious from 1-based ring position i, after
\* `steps` virtual nodes were examined; a walk that has been through every
\* position its index can take without a verdict never returns
RECURSIVE walk(_, _, _)
walk(i, steps, total) ==
    IF i > Len(ring)
    THEN [ret |-> Panic, host |-> NoHost, steps |-> steps, total |-> total]
    ELSE LET host == IF ring[i] \in DOMAIN virt2host
                     THEN virt2host[ring[i]] ELSE NoHost
             chk == checkLoadCapacity(hosts, total, host)
             ni == IF i + 1 > Cardinality(DOMAIN virt2host) THEN 1 ELSE i + 1
         IN IF chk.ret # Nil
            THEN [ret |-> chk.ret, host |-> NoHost, steps |-> steps + 1,
                  total |-> chk.total]
            ELSE IF chk.ok
            THEN [ret |-> Nil, host |-> host, steps |-> steps + 1,
                  total |-> chk.total]
            ELSE IF steps + 1 >= Cardinality(DOMAIN virt2host)
            THEN [ret |-> Hang, host |-> NoHost, steps |-> steps + 1,
                  total |-> chk.total]
            ELSE walk(ni, steps + 1, chk.total)

\* the body of GetHost(key) against the ring rg and the map v2h; a missing
\* map entry reads as the empty string
getHost(rg, v2h, key) ==
    LET idx == searchKey(rg, hashFunc(key))
    IN IF idx > Len(rg)
       THEN [ret |-> Panic, host |-> NoHost]
       ELSE [ret |-> Nil,
             host |-> IF rg[idx] \in DOMAIN v2h THEN v2h[rg[idx]] ELSE NoHost]

\* the body of GetHostCapacious(key) under the read lock
getHostCapacious(key) ==
    IF Cardinality(DOMAIN virt2host) = 0
    THEN [ret |-> ErrHostNotFound, host |-> NoHost, steps |-> 0,
          total |-> totalLoad]
    ELSE walk(searchKey(ring, hashFunc(key)), 0, totalLoad)

IdleReq == [pc |-> "idle", host |-> NoHost, total |-> 0, count |-> 0]
\* handlers that resolved a host and have not yet run their Inc
InFlight == Cardinality({r \in Reqs : reqs[r].pc = "selected"})

\* the handler's answer when http.Get fails
ErrForward == "forward failed"

\* no RegisterHost or UnregisterHost call is inside its critical section
IdleWriter == [op |-> "none", host |-> NoHost, i |-> 0]
Running == "running"

IdleCall == [pc |-> "none", op |-> "none", host |-> NoHost]

\* the ring and the map after RegisterHost was called for every name in S
RECURSIVE registerAll(_, _, _)
registerAll(S, v2h, rg) ==
    IF S = {} THEN [virt2host |-> v2h, ring |-> rg]
    ELSE LET h == CHOOSE x \in S : TRUE
             res == registerLoop(h, 0, v2h, rg)
         IN registerAll(S \ {h}, res.virt2host, sortSlice(res.ring))

(***************************************************************************)
(* Initial state: core.New(replicaNum, nil)                                *)
(***************************************************************************)
Init ==
    /\ hosts = <<>>
    /\ virt2host = <<>>
    /\ ring = <<>>
    /\ totalLoad = 0
    /\ last = Result("New", NoHost, NoKey, Nil, 0, 0)
    /\ reqs = [r \in Reqs |-> IdleReq]
    /\ calls = [w \in Callers |-> IdleCall]
    /\ base = [hosts |-> <<>>, totalLoad |-> 0]
    /\ wr = IdleWriter

(***************************************************************************)
(* Structural operations                                                   *)
(***************************************************************************)
\* a registration that does not look for the name first
RegisterHostNoCheck(hostName) ==
    LET res == registerLoop(hostName, 0, virt2host, ring)
    IN /\ hosts' = [h \in DOMAIN hosts \cup {hostName} |->
                       IF h = hostName THEN 0 ELSE hosts[h]]
       /\ virt2host' = res.virt2host
       /\ ring' = sortSlice(res.ring)
       /\ UNCHANGED <<totalLoad, reqs, calls, base, wr>>
       /\ last' = Result("RegisterHost", hostName, NoKey, Nil, 0, 0)

RegisterHost(hostName) ==
    /\ IF hostName \in DOMAIN hosts
       THEN /\ last' = Result("RegisterHost", hostName, NoKey,
                              ErrHostAlreadyExists, 0, 0)
            /\ UNCHANGED core
       ELSE LET res == registerLoop(hostName, 0, virt2host, ring)
            IN /\ hosts' = [h \in DOMAIN hosts \cup {hostName} |->
                               IF h = hostName THEN 0 ELSE hosts[h]]
               /\ virt2host' = res.virt2host
               /\ ring' = sortSlice(res.ring)
               /\ UNCHANGED totalLoad
               /\ last' = Result("RegisterHost", hostName, NoKey, Nil, 0, 0)
    /\ UNCHANGED <<reqs, calls, base, wr>>

UnregisterHost(hostName) ==
    /\ IF hostName \notin DOMAIN hosts
       THEN /\ last' = Result("UnregisterHost", hostName, NoKey,
                              ErrHostNotFound, 0, 0)
            /\ UNCHANGED core
       ELSE /\ hosts' = [h \in DOMAIN hosts \ {hostName} |-> hosts[h]]
            /\ ring' = unregisterLoop(hostName, 0, ring)
            /\ UNCHANGED <<virt2host, totalLoad>>
            /\ last' = Result("UnregisterHost", hostName, NoKey, Nil, 0, 0)
    /\ UNCHANGED <<reqs, calls, base, wr>>

(***************************************************************************)
(* Lookups                                                                 *)
(***************************************************************************)
\* takes no lock; c.ring[idx] on an empty ring is an index out of range
GetHost(key) ==
    /\ LET res == getHost(ring, virt2host, key)
       IN last' = Result("GetHost", res.host, key, res.ret, 0, 0)
    /\ UNCHANGED <<core, reqs, calls, base, wr>>

GetHostCapacious(key) ==
    /\ LET res == getHostCapacious(key)
       IN /\ totalLoad' = res.total
          /\ last' = Result("GetHostCapacious", res.host, key, res.ret,
                            res.steps, 0)
    /\ UNCHANGED <<hosts, virt2host, ring, reqs, calls, base, wr>>

\* Hosts(): the keys of c.hosts
hostsList == DOMAIN hosts

Hosts ==
    /\ last' = Result("Hosts", NoHost, NoKey, Nil, Cardinality(hostsList), 0)
    /\ UNCHANGED <<core, reqs, calls, base, wr>>

\* GetLoads(): a copy of every host's LoadBound
GetLoads ==
    /\ last' = Result("GetLoads", NoHost, NoKey, Nil,
                      Cardinality(DOMAIN [h \in DOMAIN hosts |-> hosts[h]]), 0)
    /\ UNCHANGED <<core, reqs, calls, base, wr>>

\* takes no lock; writes totalLoad when it is 0, divides by len(c.hosts)
MaxLoad ==
    /\ LET t == IF totalLoad = 0 THEN 1 ELSE totalLoad
           n == Cardinality(DOMAIN hosts)
       IN /\ totalLoad' = t
          /\ IF n = 0
             THEN last' = Result("MaxLoad", NoHost, NoKey, Panic, 0, 0)
             ELSE LET q == TruncDiv(t, n)
                  IN last' = Result("MaxLoad", NoHost, NoKey, Nil,
                                    CeilLoadBound(IF q = 0 THEN 1 ELSE q), 0)
    /\ UNCHANGED <<hosts, virt2host, ring, reqs, calls, base, wr>>

(***************************************************************************)
(* Load counters                                                           *)
(***************************************************************************)
\* c.hosts[hostName] is nil for an unknown name: the add dereferences it
inc(hostName, op, r) ==
    IF hostName \notin DOMAIN hosts
    THEN /\ last' = Result(op, hostName, NoKey, Panic, 0, r)
         /\ UNCHANGED core
    ELSE /\ hosts' = [hosts EXCEPT ![hostName] = @ + 1]
         /\ totalLoad' = totalLoad + 1
         /\ last' = Result(op, hostName, NoKey, Nil, 0, r)
         /\ UNCHANGED <<virt2host, ring>>

\* a release that leaves the aggregate counter alone
doneLoadBoundOnly(host, op, r) ==
    IF host \notin DOMAIN hosts
    THEN /\ last' = Result(op, host, NoKey, Nil, 0, r)
         /\ UNCHANGED core
    ELSE /\ hosts' = [hosts EXCEPT ![host] = @ - 1]
         /\ last' = Result(op, host, NoKey, Nil, 0, r)
         /\ UNCHANGED <<virt2host, ring, totalLoad>>

done(host, op, r) ==
    IF host \notin DOMAIN hosts
    THEN /\ last' = Result(op, host, NoKey, Nil, 0, r)
         /\ UNCHANGED core
    ELSE /\ hosts' = [hosts EXCEPT ![host] = @ - 1]
         /\ totalLoad' = totalLoad - 1
         /\ last' = Result(op, host, NoKey, Nil, 0, r)
         /\ UNCHANGED <<virt2host, ring>>

Inc(hostName) ==
    /\ totalLoad + InFlight < MaxTotalLoad
    /\ hostName \in DOMAIN hosts => hosts[hostName] < MaxTotalLoad
    /\ inc(hostName, "Inc", 0)
    /\ UNCHANGED <<reqs, calls, base, wr>>

Done(host) ==
    /\ host \in DOMAIN hosts => hosts[host] > -MaxOverRelease
    /\ totalLoad > -MaxOverRelease
    /\ done(host, "Done", 0)
    /\ UNCHANGED <<reqs, calls, base, wr>>

(***************************************************************************)
(* Proxy.GetHostCapacious: resolve, reserve, release on a timer            *)
(***************************************************************************)
\* p.consistent.GetHostCapacious(key); an error ends the handler
ProxySelect(r, key) ==
    /\ reqs[r].pc = "idle"
    /\ totalLoad + InFlight < MaxTotalLoad
    /\ LET res == getHostCapacious(key)
       IN /\ totalLoad' = res.total
          /\ last' = Result("ProxySelect", res.host, key, res.ret,
                            res.steps, r)
          /\ reqs' = IF res.ret = Nil
                     THEN [reqs EXCEPT ![r] =
                             [pc |-> "selected", host |-> res.host,
                              total |-> res.total,
                              count |-> Cardinality(DOMAIN hosts)]]
                     ELSE reqs
    /\ UNCHANGED <<hosts, virt2host, ring, calls, base, wr>>

\* p.consistent.Inc(host); a panic ends the handler before the timer is set
ProxyInc(r) ==
    /\ reqs[r].pc = "selected"
    /\ inc(reqs[r].host, "ProxyInc", r)
    /\ reqs' = [reqs EXCEPT ![r] =
                  IF reqs[r].host \in DOMAIN hosts
                  THEN [IdleReq EXCEPT !.pc = "reserved", !.host = reqs[r].host]
                  ELSE IdleReq]
    /\ UNCHANGED <<calls, base, wr>>

\* the time.AfterFunc callback: p.consistent.Done(host); it runs whether the
\* handler is still waiting for the backend or has returned
ProxyDone(r) ==
    /\ reqs[r].pc \in {"reserved", "forwarded"}
    /\ done(reqs[r].host, "ProxyDone", r)
    /\ reqs' = [reqs EXCEPT ![r] =
                  IF reqs[r].pc = "reserved"
                  THEN [IdleReq EXCEPT !.pc = "released", !.host = reqs[r].host]
                  ELSE IdleReq]
    /\ UNCHANGED <<calls, base, wr>>

\* http.Get returns (ok or an error) and the handler ends: the variant that
\* stops the timer when the backend fails
ProxyForwardCancel(r, ok) ==
    /\ reqs[r].pc \in {"reserved", "released"}
    /\ last' = Result("ProxyForward", reqs[r].host, NoKey,
                      IF ok THEN Nil ELSE ErrForward, 0, r)
    /\ reqs' = [reqs EXCEPT ![r] =
                  IF reqs[r].pc = "reserved" /\ ok
                  THEN [IdleReq EXCEPT !.pc = "forwarded", !.host = reqs[r].host]
                  ELSE IdleReq]
    /\ UNCHANGED <<core, calls, base, wr>>

\* http.Get returns (ok or an error) and the handler ends; the timer set
\* before the request stays armed
ProxyForward(r, ok) ==
    /\ reqs[r].pc \in {"reserved", "released"}
    /\ last' = Result("ProxyForward", reqs[r].host, NoKey,
                      IF ok THEN Nil ELSE ErrForward, 0, r)
    /\ reqs' = [reqs EXCEPT ![r] =
                  IF reqs[r].pc = "reserved"
                  THEN [IdleReq EXCEPT !.pc = "forwarded", !.host = reqs[r].host]
                  ELSE IdleReq]
    /\ UNCHANGED <<core, calls, base, wr>>

(***************************************************************************)
(* Specifications                                                          *)
(***************************************************************************)
\* callers of the ring's own operations, one locked operation per step
Next ==
    \/ \E h \in HostNames : RegisterHost(h)
    \/ \E h \in HostNames : UnregisterHost(h)
    \/ \E k \in Keys : GetHost(k)
    \/ \E k \in Keys : GetHostCapacious(k)
    \/ MaxLoad
    \/ Hosts
    \/ GetLoads
    \/ \E h \in HostNames : Inc(h)
    \/ \E h \in HostNames : Done(h)

Spec == Init /\ [][Next]_vars

\* the proxy's handlers running concurrently: each step is one locked
\* operation of one handler or one timer callback
NextProxy ==
    \/ \E h \in HostNames : RegisterHost(h)
    \/ \E h \in HostNames : UnregisterHost(h)
    \/ \E r \in Reqs, k \in Keys : ProxySelect(r, k)
    \/ \E r \in Reqs : ProxyInc(r)
    \/ \E r \in Reqs, ok \in BOOLEAN : ProxyForward(r, ok)
    \/ \E r \in Reqs : ProxyDone(r)

SpecProxy == Init /\ [][NextProxy]_vars

\* the proxy serving one request at a time, from the lookup to the timer's
\* Done, while hosts are registered and unregistered
NextSerial ==
    \/ \E h \in HostNames : RegisterHost(h)
    \/ \E h \in HostNames : UnregisterHost(h)
    \/ \E r \in Reqs, k \in Keys :
          (\A q \in Reqs : reqs[q].pc = "idle") /\ ProxySelect(r, k)
    \/ \E r \in Reqs : ProxyInc(r)
    \/ \E r \in Reqs, ok \in BOOLEAN : ProxyForward(r, ok)
    \/ \E r \in Reqs : ProxyDone(r)

SpecSerial == Init /\ [][NextSerial]_vars

\* bounded-load assignments one after the other, none released: a handler
\* runs from its lookup to its Inc before anything else happens
NextAssign ==
    \/ \E h \in HostNames : InFlight = 0 /\ RegisterHost(h)
    \/ \E r \in Reqs, k \in Keys : InFlight = 0 /\ ProxySelect(r, k)
    \/ \E r \in Reqs : ProxyInc(r)

SpecAssign == Init /\ [][NextAssign]_vars

\* the proxy after some hosts were registered and requests were served: each
\* host still carries up to `held` reservations whose timers have not fired
InitLoaded(held) ==
    \E S \in SUBSET HostNames \ {{}} :
      \E ld \in [S -> 0..held] :
        /\ hosts = ld
        /\ virt2host = registerAll(S, <<>>, <<>>).virt2host
        /\ ring = registerAll(S, <<>>, <<>>).ring
        /\ totalLoad = SumLoads(ld, S)
        /\ last = Result("New", NoHost, NoKey, Nil, 0, 0)
        /\ reqs = [r \in Reqs |-> IdleReq]
        /\ calls = [w \in Callers |-> IdleCall]
        /\ base = [hosts |-> ld, totalLoad |-> SumLoads(ld, S)]
        /\ wr = IdleWriter

\* concurrent handlers, none of whose timers fires: lookups and Incs of
\* different handlers interleave
NextConc ==
    \/ \E r \in Reqs, k \in Keys : ProxySelect(r, k)
    \/ \E r \in Reqs : ProxyInc(r)

SpecConc == InitLoaded(1) /\ [][NextConc]_vars

\* concurrent handlers from the lookup to the timer's Done; a timer that was
\* set fires, and the lock its callback waits for is granted
NextRelease ==
    \/ \E r \in Reqs, k \in Keys : ProxySelect(r, k)
    \/ \E r \in Reqs : ProxyInc(r)
    \/ \E r \in Reqs, ok \in BOOLEAN : ProxyForward(r, ok)
    \/ \E r \in Reqs : ProxyDone(r)

SpecRelease ==
    /\ InitLoaded(0)
    /\ [][NextRelease]_vars
    /\ \A r \in Reqs : WF_vars(ProxyDone(r))

(***************************************************************************)
(* RegisterHost and UnregisterHost statement by statement, with the        *)
(* lookups that can run meanwhile: GetHost takes no lock, GetHostCapacious *)
(* waits for the writer                                                    *)
(***************************************************************************)
\* Lock, the duplicate check, c.hosts[hostName] = &Host{..}
RegisterBegin(hostName) ==
    /\ wr = IdleWriter
    /\ hostName \notin DOMAIN hosts
    /\ hosts' = [h \in DOMAIN hosts \cup {hostName} |->
                    IF h = hostName THEN 0 ELSE hosts[h]]
    /\ wr' = [op |-> "RegisterHost", host |-> hostName, i |-> 0]
    /\ last' = Result("RegisterHost", hostName, NoKey, Running, 0, 0)
    /\ UNCHANGED <<virt2host, ring, totalLoad, reqs, calls, base>>

\* one pass of the loop: the map entry and the append of replica wr.i
RegisterInsert ==
    /\ wr.op = "RegisterHost"
    /\ wr.i < replicaNum
    /\ LET hashedIdx == hashFunc(hostReplicaFormat(wr.host, wr.i))
       IN /\ virt2host' = [x \in DOMAIN virt2host \cup {hashedIdx} |->
                              IF x = hashedIdx THEN wr.host ELSE virt2host[x]]
          /\ ring' = Append(ring, hashedIdx)
    /\ wr' = [wr EXCEPT !.i = @ + 1]
    /\ UNCHANGED <<hosts, totalLoad, last, reqs, calls, base>>

\* sort.Slice, return nil, Unlock
RegisterSort ==
    /\ wr.op = "RegisterHost"
    /\ wr.i >= replicaNum
    /\ ring' = sortSlice(ring)
    /\ wr' = IdleWriter
    /\ last' = Result("RegisterHost", wr.host, NoKey, Nil, 0, 0)
    /\ UNCHANGED <<hosts, virt2host, totalLoad, reqs, calls, base>>

\* Lock, the existence check, delete(c.hosts, hostName)
UnregisterBegin(hostName) ==
    /\ wr = IdleWriter
    /\ hostName \in DOMAIN hosts
    /\ hosts' = [h \in DOMAIN hosts \ {hostName} |-> hosts[h]]
    /\ wr' = [op |-> "UnregisterHost", host |-> hostName, i |-> 0]
    /\ last' = Result("UnregisterHost", hostName, NoKey, Running, 0, 0)
    /\ UNCHANGED <<virt2host, ring, totalLoad, reqs, calls, base>>

\* one pass of the loop: delHashIndex of replica wr.i; after the last pass
\* return nil, Unlock
UnregisterRemove ==
    /\ wr.op = "UnregisterHost"
    /\ wr.i < replicaNum
    /\ ring' = delHashIndex(ring, hashFunc(hostReplicaFormat(wr.host, wr.i)))
    /\ IF wr.i + 1 >= replicaNum
       THEN /\ wr' = IdleWriter
            /\ last' = Result("UnregisterHost", wr.host, NoKey, Nil, 0, 0)
       ELSE /\ wr' = [wr EXCEPT !.i = @ + 1]
            /\ UNCHANGED last
    /\ UNCHANGED <<hosts, virt2host, totalLoad, reqs, calls, base>>

NextRace ==
    \/ \E h \in HostNames : RegisterBegin(h)
    \/ RegisterInsert
    \/ RegisterSort
    \/ \E h \in HostNames : UnregisterBegin(h)
    \/ UnregisterRemove
    \/ \E k \in Keys : GetHost(k)
    \/ \E k \in Keys : wr = IdleWriter /\ GetHostCapacious(k)

SpecRace == Init /\ [][NextRace]_vars

(***************************************************************************)
(* A storm of concurrent Inc and Done calls against a fixed set of hosts   *)
(***************************************************************************)
\* some hosts are registered and carry some load; every caller is about to
\* make one call
InitStorm ==
    \E S \in SUBSET HostNames \ {{}} :
      \E ld \in [S -> 0..1] :
        /\ hosts = ld
        /\ virt2host = registerAll(S, <<>>, <<>>).virt2host
        /\ ring = registerAll(S, <<>>, <<>>).ring
        /\ totalLoad = SumLoads(ld, S)
        /\ last = Result("New", NoHost, NoKey, Nil, 0, 0)
        /\ reqs = [r \in Reqs |-> IdleReq]
        /\ calls \in [Callers -> [pc : {"ready"}, op : {"Inc", "Done"}, host : S]]
        /\ base = [hosts |-> ld, totalLoad |-> SumLoads(ld, S)]
        /\ wr = IdleWriter

\* the ring's lock serialises the calls: each runs as a whole
StormInc(w) ==
    /\ calls[w].pc = "ready"
    /\ calls[w].op = "Inc"
    /\ inc(calls[w].host, "Inc", 0)
    /\ calls' = [calls EXCEPT ![w].pc = "done"]
    /\ UNCHANGED <<reqs, base, wr>>

StormDone(w) ==
    /\ calls[w].pc = "ready"
    /\ calls[w].op = "Done"
    /\ done(calls[w].host, "Done", 0)
    /\ calls' = [calls EXCEPT ![w].pc = "done"]
    /\ UNCHANGED <<reqs, base, wr>>

NextStorm ==
    \/ \E w \in Callers : StormInc(w)
    \/ \E w \in Callers : StormDone(w)

SpecStorm == InitStorm /\ [][NextStorm]_vars

(***************************************************************************)
(* Properties                                                              *)
(***************************************************************************)
RingHashes == {ring[i] : i \in 1..Len(ring)}
RingHostNames == {virt2host[ring[i]] : i \in 1..Len(ring)}
Registered == DOMAIN hosts

\* ceil(((totalLoad + 1) / hostCount) * 1.25) with an exact division
ExactCapacity(total, count) == -((-(5 * (total + 1))) \div (4 * count))

\* C1: after any sequence of RegisterHost and UnregisterHost calls the host
\* names met by traversing the ring are exactly the registered hosts, and
\* the ring is sorted ascending.
C1_RingInvariant ==
    /\ RingHashes \subseteq DOMAIN virt2host
    /\ RingHostNames = Registered
    /\ \A i \in 1..(Len(ring) - 1) : ring[i] <= ring[i + 1]

\* a host was removed while others stay registered
C1_Witness ==
    /\ last.op = "UnregisterHost"
    /\ last.ret = Nil
    /\ Cardinality(Registered) >= 2

\* C2: the hashes in the ring are exactly the keys of the hash-to-host map.
C2_RingMatchesMap == RingHashes = DOMAIN virt2host

\* C3: totalLoad is the sum of loadBound over the registered hosts.
C3_TotalLoadIsSum == totalLoad = SumLoads(hosts, Registered)

\* C4: after a bounded-load assignment (lookup, then Inc) the chosen host's
\* loadBound is at most ceil(((totalLoad+1)/hostCount)*1.25), exact division,
\* totalLoad and hostCount taken at the assignment.
C4_BoundedLoad ==
    [][\A r \in Reqs :
        (reqs[r].pc = "selected" /\ reqs'[r].pc = "reserved")
            => hosts'[reqs[r].host]
                 <= ExactCapacity(reqs[r].total, reqs[r].count)]_vars

\* C5: a RegisterHost of a registered name returns ErrHostAlreadyExists, an
\* UnregisterHost of an unknown name returns ErrHostNotFound, and neither
\* changes hosts, ring, map or any counter.
C5_FailingCallChangesNothing ==
    [][/\ (last'.op = "RegisterHost" /\ last'.host \in Registered)
            => (last'.ret = ErrHostAlreadyExists /\ UNCHANGED core)
       /\ (last'.op = "UnregisterHost" /\ last'.host \notin Registered)
            => (last'.ret = ErrHostNotFound /\ UNCHANGED core)]_vars

\* a duplicate registration of a host that carries load was refused
C5_Witness ==
    /\ last.op = "RegisterHost"
    /\ last.ret = ErrHostAlreadyExists
    /\ hosts[last.host] > 0

\* C6: GetHost on an empty ring returns a not-found failure.
C6_GetHostGuardsEmptyRing ==
    (last.op = "GetHost" /\ Len(ring) = 0) => last.ret = ErrHostNotFound

\* C7: GetHostCapacious returns ErrHostNotFound whenever no host is
\* registered.
C7_CapaciousNotFoundWhenNoHost ==
    (last.op = "GetHostCapacious" /\ Registered = {})
        => last.ret = ErrHostNotFound

\* C8: with at least one registered host the walk of GetHostCapacious ends
\* after examining at most len(ring) virtual nodes, whatever Register,
\* Unregister, Inc and Done calls (matched or not) came before.
C8_WalkTerminates ==
    (last.op = "GetHostCapacious" /\ Registered # {})
        => (last.ret # Hang /\ last.steps <= Len(ring))

\* C9: Inc of a name that is not registered is a no-op or a defined error.
C9_IncUnknownHostIsDefined ==
    (last.op = "Inc" /\ last.host \notin Registered)
        => last.ret \in {Nil, ErrHostNotFound}

Calls(op, h) == {w \in Callers : calls[w].op = op /\ calls[w].host = h}
CallsOf(op) == {w \in Callers : calls[w].op = op}
StormOver == \A w \in Callers : calls[w].pc = "done"

\* C10: once every call of the storm has completed, totalLoad is its initial
\* value plus the Inc calls minus the Done calls, and a host that got as
\* many Inc as Done calls has its original loadBound.
C10_LoadConservation ==
    StormOver =>
        /\ totalLoad = base.totalLoad + Cardinality(CallsOf("Inc"))
                                      - Cardinality(CallsOf("Done"))
        /\ \A h \in Registered :
              Cardinality(Calls("Inc", h)) = Cardinality(Calls("Done", h))
                  => hosts[h] = base.hosts[h]

\* a finished storm with as many Inc as Done calls on one host
C10_Witness ==
    /\ StormOver
    /\ \E h \in Registered :
          /\ Cardinality(Calls("Inc", h)) >= 1
          /\ Cardinality(Calls("Inc", h)) = Cardinality(Calls("Done", h))

\* the virtual-node hashes of host h
NodeHashes(h) == {hashFunc(hostReplicaFormat(h, i)) : i \in 0..(replicaNum - 1)}

\* C11: a lookup that runs concurrently with RegisterHost or UnregisterHost
\* sees hosts, ring and map as they were before or as they are after that
\* call: every host has all of its virtual nodes in the ring and is in hosts,
\* or has none and is not, and the lookup resolves to no deleted host.
C11_LookupSeesWholeCall ==
    last.op \in {"GetHost", "GetHostCapacious"} =>
        /\ \A h \in HostNames :
              \/ h \in Registered /\ NodeHashes(h) \subseteq RingHashes
              \/ h \notin Registered /\ NodeHashes(h) \cap RingHashes = {}
        /\ last.ret = Nil => last.host \in Registered

\* C13: after a successful RegisterHost(X) every key resolves to X or to the
\* host it resolved to before; after a successful UnregisterHost(X) every key
\* that resolved to a host other than X still resolves to that host.
C13_RebalancingLocality ==
    [][/\ (last'.op = "RegisterHost" /\ last'.ret = Nil)
            => \A k \in Keys :
                 getHost(ring', virt2host', k).host
                     \in {last'.host, getHost(ring, virt2host, k).host}
       /\ (last'.op = "UnregisterHost" /\ last'.ret = Nil)
            => \A k \in Keys :
                 (/\ getHost(ring, virt2host, k).ret = Nil
                  /\ getHost(ring, virt2host, k).host # last'.host)
                     => getHost(ring', virt2host', k)
                            = getHost(ring, virt2host, k)]_vars

\* a host joined others and took over some keys but not all of them
C13_Witness ==
    /\ last.op = "RegisterHost"
    /\ last.ret = Nil
    /\ Cardinality(Registered) >= 2
    /\ \E k \in Keys : getHost(ring, virt2host, k).host = last.host
    /\ \E k \in Keys : getHost(ring, virt2host, k).host # last.host

\* C14: a host that was unregistered and not registered again is returned by
\* no GetHost and no GetHostCapacious call, for any key and load state, and is
\* not in Hosts().
C14_UnregisteredNeverResolved ==
    \A h \in HostNames \ Registered :
        /\ h \notin hostsList
        /\ \A k \in Keys :
              /\ getHost(ring, virt2host, k).host # h
              /\ getHostCapacious(k).host # h

\* a host was removed, the map still names it, and others stay registered
C14_Witness ==
    /\ last.op = "UnregisterHost"
    /\ last.ret = Nil
    /\ Registered # {}
    /\ \E x \in DOMAIN virt2host : virt2host[x] = last.host

\* C15: GetLoads, Hosts and MaxLoad change neither hosts, ring, map nor any
\* counter.
C15_ReadOnlyCalls ==
    [][last'.op \in {"GetLoads", "Hosts", "MaxLoad"} => UNCHANGED core]_vars

\* the ring entry a key belongs to: the smallest hash >= the key's hash, or
\* the smallest hash of the ring when there is none
Successor(key) ==
    LET above == {x \in RingHashes : x >= hashFunc(key)}
        from == IF above = {} THEN RingHashes ELSE above
    IN CHOOSE x \in from : \A y \in from : x <= y

\* C16: on a non-empty ring GetHost(key) returns the owner of the entry with
\* the smallest hash >= hash(key), and the owner of the first entry when
\* hash(key) is above every ring hash.
C16_GetHostSuccessor ==
    (last.op = "GetHost" /\ Len(ring) > 0)
        => (last.ret = Nil /\ last.host = virt2host[Successor(last.key)])

\* a lookup of a key whose hash is above every entry of a ring of two hosts
C16_Witness ==
    /\ last.op = "GetHost"
    /\ Cardinality(Registered) >= 2
    /\ \A x \in RingHashes : x < hashFunc(last.key)

\* ring positions in circular order, starting at position idx
CircularOrder(idx) ==
    [n \in 1..Len(ring) |-> ((idx - 1 + n - 1) % Len(ring)) + 1]

\* H.loadBound + 1 <= cap for the owner of ring position p
Headroom(p) ==
    /\ ring[p] \in DOMAIN virt2host
    /\ checkLoadCapacity(hosts, totalLoad, virt2host[ring[p]]).ok

\* the owner of the first position with headroom, in circular order from the
\* position GetHost(key) uses
FirstCapacious(key) ==
    LET order == CircularOrder(searchKey(ring, hashFunc(key)))
        n == CHOOSE m \in 1..Len(ring) :
                /\ Headroom(order[m])
                /\ \A j \in 1..(m - 1) : ~Headroom(order[j])
    IN virt2host[ring[order[n]]]

\* C17: with a registered host, GetHostCapacious(key) returns the owner of
\* the first virtual node with headroom in circular ring order from the
\* position GetHost(key) uses.
C17_FirstCapaciousHost ==
    (/\ last.op = "GetHostCapacious"
     /\ Registered # {}
     /\ \E p \in 1..Len(ring) : Headroom(p))
        => (last.ret = Nil /\ last.host = FirstCapacious(last.key))

\* C18: the walk of GetHostCapacious keeps its index inside the ring: with a
\* registered host the call returns a host or an error, it does not fault.
C18_WalkIndexInRange ==
    (last.op = "GetHostCapacious" /\ Registered # {}) => last.ret # Panic

\* the timer of request r is set and has not fired
Armed(r) == reqs[r].pc \in {"reserved", "forwarded"}

\* C12: every reservation taken by the proxy's GetHostCapacious (its Inc) is
\* eventually followed by a Done for the same host name, and by one only:
\* the timer of a request is disarmed by its own Done and by nothing else,
\* whether the forwarded request succeeds or fails.
C12_ReservationReleasedOnce ==
    /\ [][\A r \in Reqs :
            /\ (Armed(r) /\ ~Armed(r)')
                  => (last'.op = "ProxyDone" /\ last'.req = r
                      /\ last'.host = reqs[r].host)
            /\ (last'.op = "ProxyDone" /\ last'.req = r /\ reqs'[r] # reqs[r])
                  => (Armed(r) /\ ~Armed(r)')]_vars
    /\ \A r \in Reqs : Armed(r) ~> (last.op = "ProxyDone" /\ last.req = r)

\* the timer of a request whose handler has returned fires while another
\* request, released already, still waits for its backend
C12_Witness ==
    /\ last.op = "ProxyDone"
    /\ reqs[last.req].pc = "idle"
    /\ \E r \in Reqs : reqs[r].pc = "released"

\* C19: when every Done is the release of an earlier Inc on the same host
\* name, the loadBound of every registered host and totalLoad are >= 0 in
\* every reachable state, also when the host was unregistered and registered
\* again in between.
C19_LoadsNonNegative ==
    /\ \A h \in Registered : hosts[h] >= 0
    /\ totalLoad >= 0

\* the threshold checkLoadCapacity compares with, for the counters of a lookup
CodeCapacity(total, count) ==
    LET q == TruncDiv(total + 1, count)
    IN CeilLoadBound(IF q = 0 THEN 1 ELSE q)

\* C20: with concurrent handlers and no Done, the loadBound of a host after a
\* handler's Inc is at most the threshold against which the lookup of that
\* handler admitted the host.
C20_ReservationAtomic ==
    [][\A r \in Reqs :
        (reqs[r].pc = "selected" /\ reqs'[r].pc = "reserved")
            => hosts'[reqs[r].host]
                 <= CodeCapacity(reqs[r].total, reqs[r].count)]_vars

====
